---- MODULE Spec2Model ----
(***************************************************************************)
(* A model of src/src/kdtree.rs: the bucketed k-d tree (KdTree::add and    *)
(* its helpers) and the best-first k-nearest-neighbour search              *)
(* (KdTree::nearest, KdTree::nearest_step).                                *)
(*                                                                         *)
(* Numbers.  An f64 x is represented by the integer 2*x, so that every     *)
(* coordinate 0, 1, 2, ... and every midpoint min + (max - min) / 2 of two *)
(* of them is represented exactly; on these values the f64 operations of   *)
(* the source are exact as well.  INFINITY, NEG_INFINITY and NAN are three *)
(* values outside the finite range.                                        *)
(*                                                                         *)
(* Option<X> is a sequence of length 0 (None) or 1 (Some(x)).              *)
(***************************************************************************)
EXTENDS Integers, Sequences, FiniteSets, TLC

\* ---------------------------------------------------------------- bounds
\* accepted insertions in a run of Spec, and in a run of SpecSearch
MaxAdds == 3
SearchMaxAdds == 2
\* the greatest num asked of nearest
MaxK == 2

\* the trees built: new_with_capacity(d, c) for d in Dims, c in Caps
Dims == {1, 2}
Caps == {0, 1, 2}

\* ---------------------------------------------------------------- f64
INFINITY == 1000
NEG_INFINITY == 0 - INFINITY
NAN == 2000

F(x) == 2 * x

is_nan(x) == x = NAN
is_finite(x) == x # NAN /\ x # INFINITY /\ x # NEG_INFINITY

\* a - b on f64
FSub(a, b) ==
    IF is_nan(a) \/ is_nan(b) THEN NAN
    ELSE IF a = INFINITY THEN (IF b = INFINITY THEN NAN ELSE INFINITY)
    ELSE IF a = NEG_INFINITY THEN (IF b = NEG_INFINITY THEN NAN ELSE NEG_INFINITY)
    ELSE IF b = INFINITY THEN NEG_INFINITY
    ELSE IF b = NEG_INFINITY THEN INFINITY
    ELSE a - b

\* a + b on f64
FAdd(a, b) ==
    IF is_nan(a) \/ is_nan(b) THEN NAN
    ELSE IF a = INFINITY THEN (IF b = NEG_INFINITY THEN NAN ELSE INFINITY)
    ELSE IF a = NEG_INFINITY THEN (IF b = INFINITY THEN NAN ELSE NEG_INFINITY)
    ELSE IF b = INFINITY \/ b = NEG_INFINITY THEN b
    ELSE a + b

\* a / 2f64 on f64 (finite values here are even)
FHalf(a) == IF is_finite(a) THEN a \div 2 ELSE a

\* a < b and a > b on f64: false as soon as one side is NaN
FLt(a, b) == ~is_nan(a) /\ ~is_nan(b) /\ a < b
FGt(a, b) == ~is_nan(a) /\ ~is_nan(b) /\ a > b
FLe(a, b) == ~is_nan(a) /\ ~is_nan(b) /\ a <= b

Min2(a, b) == IF a < b THEN a ELSE b

\* ---------------------------------------------------------------- Option
None == <<>>
Some(x) == <<x>>
is_some(o) == Len(o) = 1
is_none(o) == Len(o) = 0
unwrap(o) == o[1]

\* ---------------------------------------------------------------- errors
WrongDimension == "WrongDimension"
NonFiniteCoordinate == "NonFiniteCoordinate"
ZeroCapacity == "ZeroCapacity"
ErrorKind == {WrongDimension, NonFiniteCoordinate, ZeroCapacity}

Ok(v) == [ok |-> TRUE, err |-> "", vec |-> v]
Err(e) == [ok |-> FALSE, err |-> e, vec |-> <<>>]

\* ---------------------------------------------------------------- KdTree
new_with_capacity(dimensions, capacity) ==
    [left |-> None,
     right |-> None,
     dimensions |-> dimensions,
     capacity |-> capacity,
     size |-> 0,
     min_bounds |-> [i \in 1..dimensions |-> INFINITY],
     max_bounds |-> [i \in 1..dimensions |-> NEG_INFINITY],
     split_value |-> None,
     split_dimension |-> None,
     points |-> Some(<<>>),
     bucket |-> Some(<<>>)]

is_leaf(self) ==
    /\ is_some(self.bucket) /\ is_some(self.points) /\ is_none(self.split_value)
    /\ is_none(self.split_dimension) /\ is_none(self.left) /\ is_none(self.right)

\* belongs_in_left with <= for <
belongs_in_left_le(self, point) ==
    FLe(point[unwrap(self.split_dimension) + 1], unwrap(self.split_value))

\* slices are indexed from 0 in the source, sequences from 1 here
belongs_in_left(self, point) ==
    FLt(point[unwrap(self.split_dimension) + 1], unwrap(self.split_value))

\* extend with `else if v > h`: a coordinate that lowers min cannot raise max
extend_else_if(self, point) ==
    LET n == Min2(Len(self.min_bounds), Min2(Len(self.max_bounds), Len(point)))
    IN [self EXCEPT
          !.min_bounds = [i \in 1..Len(self.min_bounds) |->
                            IF i <= n /\ FLt(point[i], self.min_bounds[i])
                            THEN point[i] ELSE self.min_bounds[i]],
          !.max_bounds = [i \in 1..Len(self.max_bounds) |->
                            IF i <= n /\ ~FLt(point[i], self.min_bounds[i])
                                      /\ FGt(point[i], self.max_bounds[i])
                            THEN point[i] ELSE self.max_bounds[i]]]

\* the zip of min_bounds, max_bounds and point stops at the shortest of them
extend(self, point) ==
    LET n == Min2(Len(self.min_bounds), Min2(Len(self.max_bounds), Len(point)))
    IN [self EXCEPT
          !.min_bounds = [i \in 1..Len(self.min_bounds) |->
                            IF i <= n /\ FLt(point[i], self.min_bounds[i])
                            THEN point[i] ELSE self.min_bounds[i]],
          !.max_bounds = [i \in 1..Len(self.max_bounds) |->
                            IF i <= n /\ FGt(point[i], self.max_bounds[i])
                            THEN point[i] ELSE self.max_bounds[i]]]

RECURSIVE check_point_loop(_, _)
check_point_loop(point, i) ==
    IF i > Len(point) THEN Ok(<<>>)
    ELSE IF ~is_finite(point[i]) THEN Err(NonFiniteCoordinate)
    ELSE check_point_loop(point, i + 1)

check_point(self, point) ==
    IF self.dimensions # Len(point) THEN Err(WrongDimension)
    ELSE check_point_loop(point, 1)

\* Vec::swap_remove(0): the first element, and the vector with the last
\* element moved into its place
swap_remove0(v) ==
    [elem |-> v[1],
     rest |-> IF Len(v) = 1 THEN <<>>
              ELSE <<v[Len(v)]>> \o SubSeq(v, 2, Len(v) - 1)]

\* split_scan over dim in 0..dimensions - 1: the last dimension is not looked at
RECURSIVE split_scan_skip_last(_, _, _, _)
split_scan_skip_last(self, dim, max, split_dimension) ==
    IF dim + 1 >= self.dimensions THEN split_dimension
    ELSE LET diff == FSub(self.max_bounds[dim + 1], self.min_bounds[dim + 1])
         IN IF ~is_nan(diff) /\ FGt(diff, max)
            THEN split_scan_skip_last(self, dim + 1, diff, Some(dim))
            ELSE split_scan_skip_last(self, dim + 1, max, split_dimension)

\* the scan of split over dim in 0..dimensions: [max, split_dimension]
RECURSIVE split_scan(_, _, _, _)
split_scan(self, dim, max, split_dimension) ==
    IF dim >= self.dimensions THEN split_dimension
    ELSE LET diff == FSub(self.max_bounds[dim + 1], self.min_bounds[dim + 1])
         IN IF ~is_nan(diff) /\ FGt(diff, max)
            THEN split_scan(self, dim + 1, diff, Some(dim))
            ELSE split_scan(self, dim + 1, max, split_dimension)

\* A function of the tree returns [t |-> the node afterwards, log |-> the
\* leaves as they were at each evaluation of `self.size > self.capacity`
\* (kdtree.rs:172), in order]; log is an observation, not program state.
RECURSIVE add_to_bucket(_, _, _)
RECURSIVE split(_, _, _)
RECURSIVE split_loop(_, _, _, _, _)

split_loop(self, points, bucket, left, right) ==
    IF points = <<>> THEN [left |-> left, right |-> right]
    ELSE LET p == swap_remove0(points)
             d == swap_remove0(bucket)
         IN IF belongs_in_left(self, p.elem)
            THEN LET r == add_to_bucket(left.t, p.elem, d.elem)
                 IN split_loop(self, p.rest, d.rest,
                               [t |-> r.t, log |-> left.log \o r.log], right)
            ELSE LET r == add_to_bucket(right.t, p.elem, d.elem)
                 IN split_loop(self, p.rest, d.rest,
                               left, [t |-> r.t, log |-> right.log \o r.log])

split(self0, points, bucket) ==
    LET sd == split_scan(self0, 0, F(0), self0.split_dimension)
    IN IF is_none(sd)
       THEN [t |-> [self0 EXCEPT !.points = Some(points), !.bucket = Some(bucket)],
             log |-> <<>>]
       ELSE LET dim == unwrap(sd)
                min == self0.min_bounds[dim + 1]
                max == self0.max_bounds[dim + 1]
                self == [self0 EXCEPT
                           !.split_dimension = sd,
                           !.split_value = Some(FAdd(min, FHalf(FSub(max, min))))]
                fresh == [t |-> new_with_capacity(self.dimensions, self.capacity),
                          log |-> <<>>]
                lr == split_loop(self, points, bucket, fresh, fresh)
            IN [t |-> [self EXCEPT !.left = Some(lr.left.t),
                                   !.right = Some(lr.right.t)],
                log |-> lr.left.log \o lr.right.log]

\* add_to_bucket that splits at `self.size > self.capacity + 1`
add_to_bucket_late_split(self0, point, data) ==
    LET ext == extend(self0, point)
        points == Append(unwrap(ext.points), point)
        bucket == Append(unwrap(ext.bucket), data)
        self == [ext EXCEPT !.points = None, !.bucket = None, !.size = @ + 1]
        seen == [size |-> self.size, capacity |-> self.capacity, points |-> points]
    IN IF self.size > self.capacity + 1
       THEN LET r == split(self, points, bucket)
            IN [t |-> r.t, log |-> <<seen>> \o r.log]
       ELSE [t |-> [self EXCEPT !.points = Some(points), !.bucket = Some(bucket)],
             log |-> <<seen>>]

add_to_bucket(self0, point, data) ==
    LET ext == extend(self0, point)
        points == Append(unwrap(ext.points), point)
        bucket == Append(unwrap(ext.bucket), data)
        self == [ext EXCEPT !.points = None, !.bucket = None, !.size = @ + 1]
        seen == [size |-> self.size, capacity |-> self.capacity, points |-> points]
    IN IF self.size > self.capacity
       THEN LET r == split(self, points, bucket)
            IN [t |-> r.t, log |-> <<seen>> \o r.log]
       ELSE [t |-> [self EXCEPT !.points = Some(points), !.bucket = Some(bucket)],
             log |-> <<seen>>]

\* add_unchecked without `self.size += 1` at an internal node
RECURSIVE add_unchecked_no_size(_, _, _)
add_unchecked_no_size(self0, point, data) ==
    IF is_leaf(self0) THEN add_to_bucket(self0, point, data)
    ELSE LET self == extend(self0, point)
         IN IF belongs_in_left(self, point)
            THEN LET r == add_unchecked_no_size(unwrap(self.left), point, data)
                 IN [t |-> [self EXCEPT !.left = Some(r.t)], log |-> r.log]
            ELSE LET r == add_unchecked_no_size(unwrap(self.right), point, data)
                 IN [t |-> [self EXCEPT !.right = Some(r.t)], log |-> r.log]

RECURSIVE add_unchecked(_, _, _)
add_unchecked(self0, point, data) ==
    IF is_leaf(self0) THEN add_to_bucket(self0, point, data)
    ELSE LET self == [extend(self0, point) EXCEPT !.size = @ + 1]
         IN IF belongs_in_left(self, point)
            THEN LET r == add_unchecked(unwrap(self.left), point, data)
                 IN [t |-> [self EXCEPT !.left = Some(r.t)], log |-> r.log]
            ELSE LET r == add_unchecked(unwrap(self.right), point, data)
                 IN [t |-> [self EXCEPT !.right = Some(r.t)], log |-> r.log]

\* add that extends the bounding box before it checks the point
add_check_late(self, point, data) ==
    IF self.capacity = 0
    THEN [ret |-> Err(ZeroCapacity), t |-> self, log |-> <<>>]
    ELSE LET c == check_point(self, point)
         IN IF ~c.ok THEN [ret |-> c, t |-> extend(self, point), log |-> <<>>]
            ELSE LET r == add_unchecked(self, point, data)
                 IN [ret |-> Ok(<<>>), t |-> r.t, log |-> r.log]

\* add that checks the point before it checks the capacity
add_point_first(self, point, data) ==
    LET c == check_point(self, point)
    IN IF ~c.ok THEN [ret |-> c, t |-> self, log |-> <<>>]
       ELSE IF self.capacity = 0
       THEN [ret |-> Err(ZeroCapacity), t |-> self, log |-> <<>>]
       ELSE LET r == add_unchecked(self, point, data)
            IN [ret |-> Ok(<<>>), t |-> r.t, log |-> r.log]

\* add: [ret |-> Result<(), ErrorKind>, t, log]
add(self, point, data) ==
    IF self.capacity = 0
    THEN [ret |-> Err(ZeroCapacity), t |-> self, log |-> <<>>]
    ELSE LET c == check_point(self, point)
         IN IF ~c.ok THEN [ret |-> c, t |-> self, log |-> <<>>]
            ELSE LET r == add_unchecked(self, point, data)
                 IN [ret |-> Ok(<<>>), t |-> r.t, log |-> r.log]

\* ---------------------------------------------------------------- distance
\* the caller's distance function F: Fn(&[f64], &[f64]) -> f64
Metrics == {"manhattan", "squared_euclidean"}

FAbs(a) == IF a = NEG_INFINITY THEN INFINITY ELSE IF is_finite(a) /\ a < 0 THEN 0 - a ELSE a

\* a * a on f64; the representation of (x/2)*(x/2) is x*x/2
FSquare(a) == IF is_nan(a) THEN NAN ELSE IF ~is_finite(a) THEN INFINITY ELSE (a * a) \div 2

RECURSIVE distance_sum(_, _, _, _)
distance_sum(metric, a, b, i) ==
    IF i > Min2(Len(a), Len(b)) THEN F(0)
    ELSE LET diff == FSub(a[i], b[i])
             term == IF metric = "manhattan" THEN FAbs(diff) ELSE FSquare(diff)
         IN FAdd(term, distance_sum(metric, a, b, i + 1))

distance(metric, a, b) == distance_sum(metric, a, b, 1)

\* util::distance_to_space: the distance from p1 to the nearest point of the
\* box [min_bounds, max_bounds]
distance_to_space(p1, min_bounds, max_bounds, metric) ==
    LET p2 == [i \in 1..Len(p1) |->
                 IF FGt(p1[i], max_bounds[i]) THEN max_bounds[i]
                 ELSE IF FLt(p1[i], min_bounds[i]) THEN min_bounds[i]
                 ELSE p1[i]]
    IN distance(metric, p1, p2)

\* ---------------------------------------------------------------- heaps
\* HeapElement {distance, element}, ordered by distance alone.  A BinaryHeap
\* is the set of its elements; peek and pop take a greatest element, any of
\* them when several are equal.
HeapElement(d, e) == [distance |-> d, element |-> e]

heap_tops(h) == {e \in h : \A o \in h : o.distance <= e.distance}

peek_distance(h) == (CHOOSE e \in heap_tops(h) : TRUE).distance

RECURSIVE into_sorted_vec(_)
into_sorted_vec(h) ==
    IF h = {} THEN {<<>>}
    ELSE UNION {{Append(s, m) : s \in into_sorted_vec(h \ {m})} : m \in heap_tops(h)}

take(v, n) == SubSeq(v, 1, Min2(n, Len(v)))

\* ---------------------------------------------------------------- nearest
\* the `while !curr.is_leaf()` loop of nearest_step: [curr, pending]
RECURSIVE nearest_descend(_, _, _, _, _)
nearest_descend(curr0, point, metric, evaluated_dist, pending0) ==
    IF is_leaf(curr0) THEN [curr |-> curr0, pending |-> pending0]
    ELSE LET left == belongs_in_left(curr0, point)
             candidate == IF left THEN unwrap(curr0.right) ELSE unwrap(curr0.left)
             curr == IF left THEN unwrap(curr0.left) ELSE unwrap(curr0.right)
             candidate_to_space ==
                 distance_to_space(point, curr.min_bounds, curr.max_bounds, metric)
             pending == IF FLe(candidate_to_space, evaluated_dist)
                        THEN pending0 \cup {HeapElement(0 - candidate_to_space, candidate)}
                        ELSE pending0
         IN nearest_descend(curr, point, metric, evaluated_dist, pending)

\* the `for element in iter` loop of nearest_step: the heaps evaluated can end as
RECURSIVE nearest_leaf_loop(_, _, _, _, _, _, _)
nearest_leaf_loop(points, bucket, i, point, num, metric, evaluated) ==
    IF i > Min2(Len(points), Len(bucket)) THEN {evaluated}
    ELSE LET element == HeapElement(distance(metric, points[i], point), bucket[i])
         IN IF Cardinality(evaluated) < num
            THEN nearest_leaf_loop(points, bucket, i + 1, point, num, metric,
                                   evaluated \cup {element})
            ELSE IF element.distance < peek_distance(evaluated)
            THEN UNION {nearest_leaf_loop(points, bucket, i + 1, point, num, metric,
                                          (evaluated \ {top}) \cup {element})
                        : top \in heap_tops(evaluated)}
            ELSE nearest_leaf_loop(points, bucket, i + 1, point, num, metric, evaluated)

\* nearest_step with `popped` the element pending.pop() returns: the set of
\* [pending, evaluated] it can end with
nearest_step(point, num, metric, pending0, evaluated0, popped) ==
    LET evaluated_dist == IF Cardinality(evaluated0) < num THEN INFINITY
                          ELSE peek_distance(evaluated0)
        d == nearest_descend(popped.element, point, metric, evaluated_dist,
                             pending0 \ {popped})
    IN {[pending |-> d.pending, evaluated |-> ev] :
          ev \in nearest_leaf_loop(unwrap(d.curr.points), unwrap(d.curr.bucket), 1,
                                   point, num, metric, evaluated0)}

\* the condition with `evaluated.is_empty()` for `evaluated.len() < num`
nearest_continue_nonempty(num, pending0, evaluated0) ==
    IF pending0 = {} THEN FALSE
    ELSE IF evaluated0 = {} THEN TRUE
    ELSE (0 - peek_distance(pending0)) < peek_distance(evaluated0)

\* the condition of the `while` of nearest
nearest_continue(num, pending0, evaluated0) ==
    IF pending0 = {} THEN FALSE
    ELSE IF Cardinality(evaluated0) < num THEN TRUE
    ELSE (0 - peek_distance(pending0)) < peek_distance(evaluated0)

\* ---------------------------------------------------------------- state
VARIABLES
    tree,       \* the root KdTree
    pc,         \* "idle" | "searching" (inside the while of nearest) | "done"
    op,         \* the call in progress or just returned: "add" | "nearest" | "none"
    point,      \* its point argument
    num,        \* nearest: min(num, size)
    asked,      \* nearest: the caller's num
    metric,     \* nearest: the distance function
    pending,    \* nearest: BinaryHeap<HeapElement<&KdTree>>
    evaluated,  \* nearest: BinaryHeap<HeapElement<&T>>
    ret,        \* the call's return value, when pc = "done"
    log,        \* add: the leaves seen at each split check of the call
    inserted,   \* the points of the add calls that returned Ok, in order
    before      \* the tree as it was when the call began

vars == <<tree, pc, op, point, num, asked, metric, pending, evaluated, ret, log, inserted, before>>

\* ---------------------------------------------------------------- inputs
\* the coordinates 0.0, 1.0 and 2.0
Coords == {F(0), F(1), F(2)}

ValidPoints(d) == [1..d -> Coords]

NonFinite == {NAN, INFINITY, NEG_INFINITY}

\* points add and nearest must reject: a coordinate too few or too many, or
\* one coordinate that is not finite (in a point of the right or a wrong length)
BadPoints(d) ==
    {[i \in 1..n |-> F(0)] : n \in {d - 1, d + 1}}
    \cup {[i \in 1..n |-> IF i = j THEN x ELSE F(1)] :
             n \in {d, d + 1}, j \in {1, d}, x \in NonFinite}

InputPoints(d) == ValidPoints(d) \cup BadPoints(d)

NoCall ==
    /\ pc' = "idle" /\ op' = "none" /\ point' = <<>> /\ num' = 0 /\ asked' = 0
    /\ metric' = "none" /\ pending' = {} /\ evaluated' = {} /\ ret' = Ok(<<>>)
    /\ log' = <<>>

Init ==
    /\ tree \in {new_with_capacity(d, c) : d \in Dims, c \in Caps}
    /\ pc = "idle" /\ op = "none" /\ point = <<>> /\ num = 0 /\ asked = 0
    /\ metric = "none" /\ pending = {} /\ evaluated = {} /\ ret = Ok(<<>>)
    /\ log = <<>>
    /\ inserted = <<>>
    /\ before = tree

\* ---------------------------------------------------------------- actions
\* tree.add(p, data); the payload is the number of the accepted insertion
Add(p, limit) ==
    /\ pc = "idle"
    /\ LET r == add(tree, p, Len(inserted) + 1)
       IN /\ r.ret.ok => Len(inserted) < limit
          /\ tree' = r.t
          /\ ret' = r.ret
          /\ log' = r.log
          /\ inserted' = IF r.ret.ok THEN Append(inserted, p) ELSE inserted
          /\ before' = tree
    /\ pc' = "done" /\ op' = "add" /\ point' = p
    /\ UNCHANGED <<num, asked, metric, pending, evaluated>>

\* tree.nearest(p, k, m) up to the `while`
NearestCall(p, k, m) ==
    /\ pc = "idle"
    /\ op' = "nearest" /\ point' = p /\ asked' = k /\ metric' = m
    /\ LET c == check_point(tree, p)
           n == Min2(k, tree.size)
       IN IF ~c.ok
          THEN /\ ret' = c /\ pc' = "done" /\ num' = 0
               /\ pending' = {} /\ evaluated' = {}
          ELSE IF n <= 0
          THEN /\ ret' = Ok(<<>>) /\ pc' = "done" /\ num' = n
               /\ pending' = {} /\ evaluated' = {}
          ELSE /\ ret' = ret /\ pc' = "searching" /\ num' = n
               /\ pending' = {HeapElement(F(0), tree)} /\ evaluated' = {}
    /\ UNCHANGED <<tree, log, inserted, before>>

\* one iteration of the `while` of nearest
NearestStep ==
    /\ pc = "searching"
    /\ nearest_continue(num, pending, evaluated)
    /\ \E popped \in heap_tops(pending) :
         \E r \in nearest_step(point, num, metric, pending, evaluated, popped) :
            /\ pending' = r.pending
            /\ evaluated' = r.evaluated
    /\ UNCHANGED <<tree, pc, op, point, num, asked, metric, ret, log, inserted, before>>

\* the `while` of nearest ends and nearest returns
NearestReturn ==
    /\ pc = "searching"
    /\ ~nearest_continue(num, pending, evaluated)
    /\ \E v \in into_sorted_vec(evaluated) : ret' = Ok(take(v, num))
    /\ pc' = "done"
    /\ UNCHANGED <<tree, op, point, num, asked, metric, pending, evaluated, log, inserted, before>>

\* the caller has the return value and the call's frame is gone
Return ==
    /\ pc = "done"
    /\ NoCall
    /\ before' = tree
    /\ UNCHANGED <<tree, inserted>>

AddAny == \E p \in InputPoints(tree.dimensions) : Add(p, MaxAdds)

AddSearch == \E p \in InputPoints(tree.dimensions) : Add(p, SearchMaxAdds)

NearestAny ==
    \E p \in InputPoints(tree.dimensions), k \in 0..MaxK, m \in Metrics :
        NearestCall(p, k, m)

\* insertions only
Next == AddAny \/ Return

Spec == Init /\ [][Next]_vars

\* insertions and searches
NextSearch == AddSearch \/ NearestAny \/ NearestStep \/ NearestReturn \/ Return

SpecSearch == Init /\ [][NextSearch]_vars

\* ---------------------------------------------------------------- reading a tree
RECURSIVE Nodes(_)
Nodes(n) ==
    {n} \cup (IF is_some(n.left) THEN Nodes(unwrap(n.left)) ELSE {})
        \cup (IF is_some(n.right) THEN Nodes(unwrap(n.right)) ELSE {})

\* the (point, payload) pairs a node stores itself
OwnPairs(n) ==
    IF is_some(n.points) /\ is_some(n.bucket)
    THEN [i \in 1..Min2(Len(unwrap(n.points)), Len(unwrap(n.bucket))) |->
            <<unwrap(n.points)[i], unwrap(n.bucket)[i]>>]
    ELSE <<>>

\* the (point, payload) pairs stored in the subtree of a node
RECURSIVE Pairs(_)
Pairs(n) ==
    OwnPairs(n) \o (IF is_some(n.left) THEN Pairs(unwrap(n.left)) ELSE <<>>)
                \o (IF is_some(n.right) THEN Pairs(unwrap(n.right)) ELSE <<>>)

Range(f) == {f[i] : i \in DOMAIN f}

SetMin(S) == CHOOSE x \in S : \A y \in S : x <= y
SetMax(S) == CHOOSE x \in S : \A y \in S : x >= y

IsInternal(n) == is_some(n.left) /\ is_some(n.right)
HoldsPoints(n) == is_some(n.points)

\* ---------------------------------------------------------------- C3
\* C3: after any sequence of add calls, accepted or rejected, the size of the
\* root is the number of accepted calls, and the size of every node is the
\* number of (point, payload) pairs stored in the leaves of its subtree; the
\* size of an internal node is the sum of the sizes of its two children.
C3_SizeCountsPairs ==
    /\ tree.size = Len(inserted)
    /\ \A n \in Nodes(tree) :
         /\ n.size = Len(Pairs(n))
         /\ IsInternal(n) => n.size = unwrap(n.left).size + unwrap(n.right).size

\* a rejected add on a tree of three points whose root has split
C3_Witness ==
    /\ pc = "done" /\ op = "add" /\ ~ret.ok
    /\ IsInternal(tree) /\ tree.size = 3 /\ Len(inserted) = 3

\* ---------------------------------------------------------------- C4
\* C4: in every node, in every dimension, min_bounds and max_bounds are the
\* least and the greatest coordinate of the points stored in the node's
\* subtree; a node without points keeps min = +infinity, max = -infinity.
C4_BoundsAreExtrema ==
    \A n \in Nodes(tree) : \A d \in 1..n.dimensions :
        LET cs == {pr[1][d] : pr \in Range(Pairs(n))}
        IN IF cs = {}
           THEN n.min_bounds[d] = INFINITY /\ n.max_bounds[d] = NEG_INFINITY
           ELSE n.min_bounds[d] = SetMin(cs) /\ n.max_bounds[d] = SetMax(cs)

\* the root split at the second insertion and the third point, added through
\* the internal root, lies beyond the box of the first two
C4_Witness ==
    /\ tree.capacity = 1 /\ Len(inserted) = 3 /\ IsInternal(tree)
    /\ inserted[3][1] > inserted[1][1] /\ inserted[3][1] > inserted[2][1]
    /\ tree.max_bounds[1] = inserted[3][1]

\* ---------------------------------------------------------------- C5
\* C5: in a tree of capacity >= 1, after every insertion, a leaf that holds
\* more than capacity points holds points that are all equal, and its
\* min_bounds equal its max_bounds in every dimension.
C5_OversizedLeafIsDuplicates ==
    tree.capacity >= 1 =>
      \A n \in Nodes(tree) :
         (HoldsPoints(n) /\ Len(unwrap(n.points)) > n.capacity) =>
            /\ \A i, j \in 1..Len(unwrap(n.points)) : unwrap(n.points)[i] = unwrap(n.points)[j]
            /\ n.min_bounds = n.max_bounds

\* an oversized leaf of duplicates under a root that has split, next to a
\* leaf within capacity
C5_Witness ==
    /\ IsInternal(tree)
    /\ \E n \in Nodes(tree) : HoldsPoints(n) /\ Len(unwrap(n.points)) > n.capacity
    /\ \E n \in Nodes(tree) : HoldsPoints(n) /\ Len(unwrap(n.points)) = n.capacity

\* ---------------------------------------------------------------- C6
\* C6: an add that returns an error leaves the tree as it was: every field of
\* every node is the same before and after the call.
C6_FailedAddChangesNothing ==
    [][(pc = "idle" /\ op' = "add" /\ ~ret'.ok) =>
          (ret'.err \in ErrorKind /\ tree' = tree /\ inserted' = inserted)]_vars

\* an add rejected for a coordinate that is not finite, on a tree whose root
\* has split
C6_Witness ==
    /\ pc = "done" /\ op = "add" /\ ret = Err(NonFiniteCoordinate)
    /\ IsInternal(tree)

\* ---------------------------------------------------------------- C7
\* what the claim says add returns for a point
C7_AddResult(t, p) ==
    IF t.capacity = 0 THEN Err(ZeroCapacity)
    ELSE IF Len(p) # t.dimensions THEN Err(WrongDimension)
    ELSE IF \E i \in 1..Len(p) : p[i] \in NonFinite THEN Err(NonFiniteCoordinate)
    ELSE Ok(<<>>)

\* C7: add returns ZeroCapacity for every point when the capacity is 0,
\* otherwise WrongDimension when the length of the point is not dimensions,
\* otherwise NonFiniteCoordinate when a coordinate is NaN or infinite,
\* otherwise Ok; nearest applies the last two checks to its point and never
\* returns ZeroCapacity.
C7_ErrorPrecedence ==
    /\ (pc = "done" /\ op = "add") => ret = C7_AddResult(tree, point)
    /\ (pc = "done" /\ op = "nearest") =>
          IF Len(point) # tree.dimensions THEN ret = Err(WrongDimension)
          ELSE IF \E i \in 1..Len(point) : point[i] \in NonFinite
          THEN ret = Err(NonFiniteCoordinate)
          ELSE ret.ok
    /\ (pc = "searching") =>
          /\ Len(point) = tree.dimensions
          /\ \A i \in 1..Len(point) : point[i] \notin NonFinite

\* on a tree of capacity 0, add of a point of the wrong length with a NaN in
\* it has returned ZeroCapacity
C7_Witness ==
    /\ pc = "done" /\ op = "add" /\ tree.capacity = 0
    /\ Len(point) # tree.dimensions /\ \E i \in 1..Len(point) : point[i] = NAN
    /\ ret = Err(ZeroCapacity)

\* ---------------------------------------------------------------- C9
\* the leaf an insertion of p descends to
RECURSIVE LeafFor(_, _)
LeafFor(n, p) ==
    IF ~IsInternal(n) THEN n
    ELSE IF p[unwrap(n.split_dimension) + 1] < unwrap(n.split_value)
    THEN LeafFor(unwrap(n.left), p)
    ELSE LeafFor(unwrap(n.right), p)

\* the node that stands, in tree `post`, where that leaf stood in tree `pre`
RECURSIVE NodeAfter(_, _, _)
NodeAfter(pre, post, p) ==
    IF ~IsInternal(pre) THEN post
    ELSE IF p[unwrap(pre.split_dimension) + 1] < unwrap(pre.split_value)
    THEN NodeAfter(unwrap(pre.left), unwrap(post.left), p)
    ELSE NodeAfter(unwrap(pre.right), unwrap(post.right), p)

C9_Example == <<<<F(0), F(0)>>, <<F(1), F(1)>>, <<F(2), F(2)>>>>

\* C9: when an insertion makes a leaf larger than capacity and some dimension
\* has positive spread, the leaf becomes an internal node that splits the
\* lowest dimension of greatest spread at min + (max - min) / 2, with each of
\* its pairs in left iff its coordinate is below the split value and in right
\* otherwise, none lost and none twice; with no positive spread it stays a
\* leaf with all its pairs.  In 2 dimensions with capacity 2, (0,0), (1,1),
\* (2,2) split dimension 0 at 1.0.
C9_SplitRule ==
    (pc = "done" /\ op = "add" /\ ret.ok) =>
       LET L == LeafFor(before, point)
           N == NodeAfter(before, tree, point)
           prs == Append(OwnPairs(L), <<point, Len(inserted)>>)
           pts == {pr[1] : pr \in Range(prs)}
           dims == 1..tree.dimensions
           lo == [d \in dims |-> SetMin({x[d] : x \in pts})]
           hi == [d \in dims |-> SetMax({x[d] : x \in pts})]
       IN /\ Len(prs) > tree.capacity =>
               IF \E d \in dims : hi[d] - lo[d] > 0
               THEN LET widest == SetMax({hi[d] - lo[d] : d \in dims})
                        best == SetMin({d \in dims : hi[d] - lo[d] = widest})
                        sv == lo[best] + ((hi[best] - lo[best]) \div 2)
                    IN /\ IsInternal(N) /\ ~HoldsPoints(N)
                       /\ N.split_dimension = Some(best - 1)
                       /\ N.split_value = Some(sv)
                       /\ Range(Pairs(unwrap(N.left))) = {pr \in Range(prs) : pr[1][best] < sv}
                       /\ Range(Pairs(unwrap(N.right))) = {pr \in Range(prs) : ~(pr[1][best] < sv)}
                       /\ Len(Pairs(unwrap(N.left))) + Len(Pairs(unwrap(N.right))) = Len(prs)
               ELSE /\ ~IsInternal(N) /\ HoldsPoints(N)
                    /\ OwnPairs(N) = prs
          /\ (tree.capacity = 2 /\ inserted = C9_Example) =>
                (tree.split_dimension = Some(0) /\ tree.split_value = Some(F(1)))

\* the example of the claim, inserted and split
C9_Witness ==
    /\ tree.capacity = 2 /\ inserted = C9_Example /\ pc = "done" /\ op = "add"
    /\ IsInternal(tree)
    /\ Len(Pairs(unwrap(tree.left))) = 1 /\ Len(Pairs(unwrap(tree.right))) = 2

\* ---------------------------------------------------------------- C10
\* C10, as claimed: at every split check, right after an append, the size of
\* the leaf is at most capacity + 1.
C10_AtMostOneOver ==
    \A i \in 1..Len(log) : log[i].size <= log[i].capacity + 1

\* C10, amended: at every split check, right after an append, the size of the
\* leaf is at most capacity + 1, unless the points the leaf held before the
\* append were all equal (a leaf kept oversized because no dimension had
\* positive spread).
C10_AtMostOneOverUnlessDuplicates ==
    \A i \in 1..Len(log) :
        \/ log[i].size <= log[i].capacity + 1
        \/ \A j, k \in 1..(Len(log[i].points) - 1) : log[i].points[j] = log[i].points[k]

\* an append to an oversized leaf of duplicates that then splits: the check
\* ran on capacity + 2 points, and again on the children of the split
C10_Witness ==
    /\ pc = "done" /\ op = "add" /\ ret.ok
    /\ Len(log) > 1
    /\ log[1].size > log[1].capacity + 1
    /\ IsInternal(tree)

\* ---------------------------------------------------------------- C1
RECURSIVE InsertSorted(_, _)
InsertSorted(x, v) ==
    IF v = <<>> THEN <<x>>
    ELSE IF x <= v[1] THEN <<x>> \o v
    ELSE <<v[1]>> \o InsertSorted(x, Tail(v))

\* the distances from q of the points of ps, ascending
RECURSIVE ScanDistances(_, _, _)
ScanDistances(m, q, ps) ==
    IF ps = <<>> THEN <<>>
    ELSE InsertSorted(distance(m, q, ps[1]), ScanDistances(m, q, Tail(ps)))

Distances(v) == [i \in 1..Len(v) |-> v[i].distance]

\* C1: for every tree built by successful insertions, every valid query point
\* and every num, the distances nearest returns are the min(num, size) least
\* of the distances from the query to every inserted point, each as many
\* times as it occurs.
C1_ExactNearest ==
    (pc = "done" /\ op = "nearest" /\ ret.ok) =>
        Distances(ret.vec) =
            take(ScanDistances(metric, point, inserted), Min2(asked, Len(inserted)))

\* ---------------------------------------------------------------- C2
\* C2: nearest returns exactly min(num, size) entries, their distances in
\* non-decreasing order; num = 0 or an empty tree gives the empty sequence,
\* and num above size gives size entries.
C2_CountAndOrder ==
    (pc = "done" /\ op = "nearest" /\ ret.ok) =>
        /\ Len(ret.vec) = Min2(asked, tree.size)
        /\ \A i \in 1..(Len(ret.vec) - 1) : ret.vec[i].distance <= ret.vec[i + 1].distance
        /\ (asked = 0 \/ tree.size = 0) => ret.vec = <<>>
        /\ asked > tree.size => Len(ret.vec) = tree.size

\* nearest of more than the tree holds, on a tree whose root has split,
\* returned both points at two different distances
C2_Witness ==
    /\ pc = "done" /\ op = "nearest" /\ ret.ok
    /\ IsInternal(tree) /\ tree.size = 2 /\ asked >= tree.size
    /\ Len(ret.vec) = 2 /\ ret.vec[1].distance < ret.vec[2].distance

\* ---------------------------------------------------------------- C8
\* the pairs of the tree that the search has neither kept nor still ahead of it
C8_Dropped ==
    {pr \in Range(Pairs(tree)) :
        /\ \A e \in evaluated : e.element # pr[2]
        /\ \A e \in pending : pr \notin Range(Pairs(e.element))}

\* C8: during nearest, the bound a far child is pushed or discarded with is
\* the distance from the query to the far child's own bounding box; so every
\* entry of pending carries a bound at most the distance from the query to
\* every point of its subtree, and no point left out of the search is closer
\* than the worst candidate kept.
C8_PendingBoundsAreLowerBounds ==
    (pc = "searching") =>
        /\ \A e \in pending :
              /\ e.element # tree =>
                    0 - e.distance = distance_to_space(point, e.element.min_bounds,
                                                       e.element.max_bounds, metric)
              /\ \A pr \in Range(Pairs(e.element)) :
                    0 - e.distance <= distance(metric, pr[1], point)
        /\ Cardinality(evaluated) = num =>
              \A pr \in C8_Dropped : distance(metric, pr[1], point) >= peek_distance(evaluated)

====
